---- MODULE Spec2Model ----
(***************************************************************************)
(* RRP lookup tool (src/app.py): the response cache, the search step, the  *)
(* three retailer adapters, the lookup orchestrator, column detection and  *)
(* the row-processing loop.                                                *)
(*                                                                         *)
(* Texts (headers, element texts, attribute values) are sequences of       *)
(* one-character strings, so that the regular expressions and conversions  *)
(* of the source are computed character by character.  Decimal numbers are *)
(* records [m, e] standing for m / 10^e, with no trailing zero in m when   *)
(* e > 0, so that 1234.50 and 1234.5 are the same value and 1234 is not.   *)
(***************************************************************************)
EXTENDS Naturals, Sequences, FiniteSets, TLC

VARIABLES
    cols, ean_col, prod_col,      \* the uploaded table's header and the detected columns
    df, out, i,                   \* the table's rows, the result columns, the loop index
    market, throttle,             \* the two UI settings
    pc,                           \* position of the script / of lookup_rrp
    query, ai, links, ui, res,    \* lookup_rrp's locals
    cache, requests,              \* st.cache_data's entries, HTTP requests issued
    log, slept, attempted,        \* history: calls of the current lookup, time slept in it, rows looked up
    firstText, lastGet,           \* history: first text returned per cache key, the last cached_get call
    html, parsed,                 \* a fetched product page and what each adapter parses from it
    serp, found                   \* a fetched result page and what ddg_html_search returns

vars == <<cols, ean_col, prod_col, df, out, i, market, throttle, pc, query, ai,
          links, ui, res, cache, requests, log, slept, attempted, firstText,
          lastGet, html, parsed, serp, found>>

-----------------------------------------------------------------------------
(* Bounds of the model.                                                    *)

MaxRows == 2
MaxCols == 2
MaxAnchors == 7

-----------------------------------------------------------------------------
(* Python values.                                                          *)

(* Every value that may be absent is a record tagged by t, so that any two *)
(* of them can be compared.                                                *)
None == [t |-> "None"]
NaN == [t |-> "NaN"]
ValueError == [t |-> "ValueError"]
Raised == [t |-> "Exception"]
Unset == [t |-> "unset"]

(* A str whose characters matter (an element's text, an attribute value).  *)
Text(chars) == [t |-> "text", s |-> chars]

(* A str that is only compared as a whole (a URL, a cell, a header).       *)
Str(v) == [t |-> "str", v |-> v]

Float(m, e) == [t |-> "float", m |-> m, e |-> e]

(* The tuple (price, url) a parse returns.                                 *)
Tuple(price, url) == [t |-> "tuple", price |-> price, url |-> url]

Digits == {"0", "1", "2", "3", "4", "5", "6", "7", "8", "9"}
Whitespace == {" "}

DigitVal(c) ==
    CASE c = "0" -> 0 [] c = "1" -> 1 [] c = "2" -> 2 [] c = "3" -> 3
      [] c = "4" -> 4 [] c = "5" -> 5 [] c = "6" -> 6 [] c = "7" -> 7
      [] c = "8" -> 8 [] c = "9" -> 9

RECURSIVE IntOf(_)
IntOf(s) ==
    IF s = <<>> THEN 0
    ELSE 10 * IntOf(SubSeq(s, 1, Len(s) - 1)) + DigitVal(s[Len(s)])

RECURSIVE Normal(_, _)
Normal(m, e) ==
    IF e > 0 /\ m % 10 = 0 THEN Normal(m \div 10, e - 1) ELSE Float(m, e)

(* float(s) for the literals the pages of the model hold: digits with at   *)
(* most one ".", at least one digit; anything else raises ValueError.      *)
IndexOfDot(s) == CHOOSE k \in 1..Len(s) : s[k] = "."

float(s) ==
    LET dots == {k \in 1..Len(s) : s[k] = "."}
        nondigits == {k \in 1..Len(s) : s[k] \notin Digits \cup {"."}}
    IN  IF nondigits # {} \/ Cardinality(dots) > 1 \/ Len(s) = Cardinality(dots)
        THEN ValueError
        ELSE IF dots = {}
        THEN Normal(IntOf(s), 0)
        ELSE LET d == IndexOfDot(s)
                 whole == SubSeq(s, 1, d - 1)
                 frac == SubSeq(s, d + 1, Len(s))
             IN  Normal(IntOf(whole \o frac), Len(frac))

(* The number of consecutive characters of s from index k that are in set. *)
RECURSIVE SpanLen(_, _, _)
SpanLen(s, k, set) ==
    IF k <= Len(s) /\ s[k] \in set THEN 1 + SpanLen(s, k + 1, set) ELSE 0

(* re.search of the price pattern (a pound sign, optional whitespace, then *)
(* the group) in text: the start of group 1 of the leftmost match, 0 when  *)
(* there is none.                                                          *)
MatchStarts(text) ==
    {k \in 1..Len(text) :
        /\ text[k] = "£"
        /\ LET j == k + 1 + SpanLen(text, k + 1, Whitespace)
           IN  j <= Len(text) /\ text[j] \in Digits}

Min(S) == CHOOSE x \in S : \A y \in S : x <= y

Range(seq) == {seq[k] : k \in 1..Len(seq)}

PriceGroupStart(text) ==
    IF MatchStarts(text) = {} THEN 0
    ELSE LET k == Min(MatchStarts(text))
         IN  k + 1 + SpanLen(text, k + 1, Whitespace)

(* m.group(1): one or more digits, then at most one of "." and ",", then   *)
(* zero or more digits, each taken greedily.                               *)
PriceGroup(text) ==
    LET j == PriceGroupStart(text)
        d1 == SpanLen(text, j, Digits)
        k == j + d1
        sep == IF k <= Len(text) /\ text[k] \in {".", ","} THEN 1 ELSE 0
        d2 == SpanLen(text, k + sep, Digits)
    IN  SubSeq(text, j, k + sep + d2 - 1)

IsNotComma(c) == c # ","

(* m.group(1).replace(",", "")                                              *)
StripCommas(s) == SelectSeq(s, IsNotComma)

-----------------------------------------------------------------------------
(* Adapters.                                                               *)

SephoraUK == "Sephora UK"
SpaceNK == "Space NK"
BootsUK == "Boots UK"

ADAPTERS == [UK |-> <<SephoraUK, SpaceNK, BootsUK>>]

(* A response body: None (no response), EmptyBody (a 200 with no text), a   *)
(* product page or a result page.  A product page is described by what the *)
(* adapters read of it: el, the text of the first element matching one of  *)
(* the retailer's own selectors (None when there is none); meta, the       *)
(* content attribute of the first meta[itemprop=price] tag (NoMeta when    *)
(* there is no such tag, None when it has no content); metaFirst, whether  *)
(* that tag precedes the element in the document; broken, markup on which  *)
(* the HTML parser raises.                                                 *)
EmptyBody == [t |-> "html", empty |-> TRUE]
NoMeta == [t |-> "nometa"]

Page(el, meta, metaFirst, broken) ==
    [t |-> "html", empty |-> FALSE, kind |-> "page", el |-> el, meta |-> meta,
     metaFirst |-> metaFirst, broken |-> broken]

(* `if not html`                                                           *)
NoHtml(body) == IF body = None THEN TRUE ELSE body.empty

(* The text of price_el for SpaceNK and BootsUK, whose selector lists end   *)
(* with [itemprop="price"]: select_one returns the first match in document *)
(* order, which is the meta tag itself (text "") when it comes first or    *)
(* when no retailer element exists.                                        *)
ItempropPriceEl(page) ==
    IF page.meta # NoMeta /\ (page.el = None \/ page.metaFirst)
    THEN Text(<<>>)
    ELSE page.el

(* `if m: return (float(m.group(1).replace(",", "")), url)`, else None.     *)
TextPrice(text, url) ==
    IF PriceGroupStart(text) = 0 THEN None
    ELSE LET v == float(StripCommas(PriceGroup(text)))
         IN  IF v = ValueError THEN Raised ELSE Tuple(v, url)

(* `if meta and meta.get("content"): try: return (float(...), url)`, else   *)
(* None.                                                                   *)
MetaPrice(page, url) ==
    IF page.meta = NoMeta \/ page.meta = None THEN None
    ELSE IF page.meta.s = <<>> THEN None
    ELSE LET v == float(page.meta.s)
         IN  IF v = ValueError THEN None ELSE Tuple(v, url)

SephoraUKParse(url, body) ==
    IF NoHtml(body) THEN None
    ELSE IF body.broken THEN Raised
    ELSE LET price_el == body.el
         IN  IF price_el = None
             THEN MetaPrice(body, url)
             ELSE TextPrice(price_el.s, url)

SpaceNKParse(url, body) ==
    IF NoHtml(body) THEN None
    ELSE IF body.broken THEN Raised
    ELSE LET price_el == ItempropPriceEl(body)
             fromText == IF price_el = None THEN None
                         ELSE TextPrice(price_el.s, url)
         IN  IF fromText # None THEN fromText ELSE MetaPrice(body, url)

BootsUKParse(url, body) ==
    IF NoHtml(body) THEN None
    ELSE IF body.broken THEN Raised
    ELSE LET price_el == ItempropPriceEl(body)
             fromText == IF price_el = None THEN None
                         ELSE TextPrice(price_el.s, url)
         IN  IF fromText # None THEN fromText ELSE MetaPrice(body, url)

(* adapter.parse(url, ean, product); ean and product are not read.          *)
Parse(adapter, url, body) ==
    CASE adapter = SephoraUK -> SephoraUKParse(url, body)
      [] adapter = SpaceNK -> SpaceNKParse(url, body)
      [] adapter = BootsUK -> BootsUKParse(url, body)

-----------------------------------------------------------------------------
(* HTTP helpers.                                                           *)

DDG == "https://duckduckgo.com/html/"

(* A result page: the href of each a.result__a anchor, in document order   *)
(* (None for an anchor without the attribute).                             *)
Serp(anchors) ==
    [t |-> "html", empty |-> FALSE, kind |-> "serp", anchors |-> anchors]

(* st.cache_data keys an entry by the function's arguments.                 *)
CacheKey(url, params_key) == <<url, params_key>>

(* cached_get without the decorator: every call is a request.              *)
cached_get_uncached(url, params_key, response) ==
    LET key == CacheKey(url, params_key)
    IN  [text |-> response,
         cache |-> [k \in DOMAIN cache \cup {key} |->
                       IF k = key THEN response ELSE cache[k]],
         requests |-> requests + 1]

(* cached_get(url, params_key), where response is what get() returns if it *)
(* is called (r.text of a 200 response, else None): the text returned and  *)
(* the cache and request count afterwards.                                 *)
cached_get(url, params_key, response) ==
    LET key == CacheKey(url, params_key)
    IN  IF key \in DOMAIN cache
        THEN [text |-> cache[key], cache |-> cache, requests |-> requests]
        ELSE [text |-> response,
              cache |-> [k \in DOMAIN cache \cup {key} |->
                            IF k = key THEN response ELSE cache[k]],
              requests |-> requests + 1]

(* json.dumps({"q": q, "kl": region})                                       *)
json_dumps(q, region) == "{q: " \o q \o ", kl: " \o region \o "}"

-----------------------------------------------------------------------------
(* Search.                                                                 *)

MaxLinks == 5

(* `if href`                                                               *)
IsHref(href) == IF href = None THEN FALSE ELSE href.v # ""

RECURSIVE Values(_)
Values(hrefs) ==
    IF hrefs = <<>> THEN <<>> ELSE <<hrefs[1].v>> \o Values(Tail(hrefs))

(* ResultLinks with the cut made on the anchors, before the hrefs are      *)
(* filtered.                                                               *)
ResultLinksCutFirst(body) ==
    IF NoHtml(body) THEN <<>>
    ELSE LET n == IF Len(body.anchors) < MaxLinks THEN Len(body.anchors)
                  ELSE MaxLinks
         IN  Values(SelectSeq(SubSeq(body.anchors, 1, n), IsHref))

(* links[:5] of the hrefs kept by the loop over soup.select("a.result__a").  *)
ResultLinks(body) ==
    IF NoHtml(body) THEN <<>>
    ELSE LET all == Values(SelectSeq(body.anchors, IsHref))
         IN  SubSeq(all, 1, IF Len(all) < MaxLinks THEN Len(all) ELSE MaxLinks)

(* The cached_get call of ddg_html_search(query, site).                     *)
SearchGet(q, site, response) ==
    cached_get(DDG, json_dumps(q \o " site:" \o site, "uk"), response)

Domain(adapter) ==
    CASE adapter = SephoraUK -> "sephora.co.uk"
      [] adapter = SpaceNK -> "spacenk.com"
      [] adapter = BootsUK -> "boots.com"

-----------------------------------------------------------------------------
(* Column detection.                                                       *)

Upper == <<"A", "B", "C", "D", "E", "F", "G", "H", "I", "J", "K", "L", "M",
           "N", "O", "P", "Q", "R", "S", "T", "U", "V", "W", "X", "Y", "Z">>
Lower == <<"a", "b", "c", "d", "e", "f", "g", "h", "i", "j", "k", "l", "m",
           "n", "o", "p", "q", "r", "s", "t", "u", "v", "w", "x", "y", "z">>

(* s.lower(), one character.                                               *)
LowerChar(c) ==
    IF \E k \in 1..26 : Upper[k] = c
    THEN Lower[CHOOSE k \in 1..26 : Upper[k] = c]
    ELSE c

IsAlnum(c) == c \in Digits \/ \E k \in 1..26 : Lower[k] = c

RECURSIVE LowerAll(_)
LowerAll(chars) ==
    IF chars = <<>> THEN <<>>
    ELSE <<LowerChar(chars[1])>> \o LowerAll(Tail(chars))

(* norm without the lowercasing.                                           *)
normCaseSensitive(s) ==
    IF s.t # "text" THEN <<>> ELSE SelectSeq(s.s, IsAlnum)

(* norm(s): "" when s is not a str.                                         *)
norm(s) ==
    IF s.t # "text" THEN <<>> ELSE SelectSeq(LowerAll(s.s), IsAlnum)

EanNames == {<<"e", "a", "n">>, <<"b", "a", "r", "c", "o", "d", "e">>,
             <<"g", "t", "i", "n">>}
ProductNames == {<<"p", "r", "o", "d", "u", "c", "t">>, <<"n", "a", "m", "e">>,
                 <<"t", "i", "t", "l", "e">>,
                 <<"d", "e", "s", "c", "r", "i", "p", "t", "i", "o", "n">>}

(* The loop `for c in cols`: the column the variable holds after the first  *)
(* k columns, starting from None.                                          *)
RECURSIVE Matched(_, _, _)
Matched(columns, names, k) ==
    IF k = 0 THEN None
    ELSE IF norm(columns[k]) \in names THEN columns[k]
    ELSE Matched(columns, names, k - 1)

DetectEan(columns) ==
    LET c == Matched(columns, EanNames, Len(columns))
    IN  IF c = None /\ Len(columns) >= 1 THEN columns[1] ELSE c

DetectProduct(columns) ==
    LET c == Matched(columns, ProductNames, Len(columns))
    IN  IF c = None /\ Len(columns) >= 2 THEN columns[2] ELSE c

-----------------------------------------------------------------------------
(* Inputs of the script: the uploaded table and the web.                    *)

Chars(str) ==
    CASE str = "EAN" -> <<"E", "A", "N">>
      [] str = "Product" -> <<"P", "r", "o", "d", "u", "c", "t">>
      [] str = "Title" -> <<"T", "i", "t", "l", "e">>
      [] str = "SKU" -> <<"S", "K", "U">>
      [] str = "GTIN" -> <<"G", "T", "I", "N">>
      [] str = "gtin" -> <<"g", "t", "i", "n">>
      [] str = "G.T.I.N." -> <<"G", ".", "T", ".", "I", ".", "N", ".">>
      [] str = "Bar-Code" -> <<"B", "a", "r", "-", "C", "o", "d", "e">>
      [] str = "EAN Code" -> <<"E", "A", "N", " ", "C", "o", "d", "e">>
      [] str = "TITLE" -> <<"T", "I", "T", "L", "E">>
      [] str = "Product Name" ->
            <<"P", "r", "o", "d", "u", "c", "t", " ", "N", "a", "m", "e">>
      [] str = "_name_" -> <<"_", "n", "a", "m", "e", "_">>
      [] str = "Description" ->
            <<"D", "e", "s", "c", "r", "i", "p", "t", "i", "o", "n">>
      [] str = "Price" -> <<"P", "r", "i", "c", "e">>
      [] str = "£12.99" -> <<"£", "1", "2", ".", "9", "9">>
      [] str = "9.50" -> <<"9", ".", "5", "0">>
      [] str = "Sold out" -> <<"S", "o", "l", "d", " ", "o", "u", "t">>
      [] str = "25.00" -> <<"2", "5", ".", "0", "0">>

Header(str) == Text(Chars(str))

(* pandas reads an empty cell as NaN, any other cell as its value.          *)
Cells == {NaN, Str("A")}

(* str(x) of a cell.                                                       *)
str(x) == IF x = NaN THEN "nan" ELSE x.v

(* s.strip(), for the strings str() gives here.                             *)
strip(s) == IF s = " " THEN "" ELSE s

(* `if ean_col`, `if prod_col`                                              *)
IsColumn(c) ==
    /\ c # None
    /\ (c.t = "text" => c.s # <<>>)
    /\ (c.t = "int" => c.v # 0)

ColumnIndex(c) == CHOOSE k \in 1..Len(cols) : cols[k] = c

(* str(row.get(col, "")) if col else ""                                     *)
CellStr(row, c) == IF IsColumn(c) THEN str(row[ColumnIndex(c)]) ELSE ""

(* The rows of the model: a row whose cells are all empty, or all filled.   *)
Rows(columns) == {[k \in 1..Len(columns) |-> c] : c \in Cells}

Tables(columns) ==
    UNION {[1..n -> Rows(columns)] : n \in 0..MaxRows}

MainCols == {<<Header("EAN"), Header("Product")>>, <<Header("SKU")>>}

(* The slider's value, in tenths of a second.                               *)
Throttles == {0, 8}

U1 == "https://shop.example/p/1"
U2 == "https://shop.example/p/2"

(* What the search engine may answer in the lookup: no response, one       *)
(* result, two results.                                                    *)
MainSerps ==
    {None, Serp(<<Str(U1)>>), Serp(<<Str(U2), Str(U1)>>)}

(* What a retailer may answer: no response, a page with a price element,  *)
(* a page whose element holds no price beside a price meta tag, a page the *)
(* parser raises on.                                                       *)
MainPages ==
    {None,
     Page(Text(Chars("£12.99")), NoMeta, FALSE, FALSE),
     Page(Text(Chars("Sold out")), Text(Chars("9.50")), FALSE, FALSE),
     Page(None, NoMeta, FALSE, TRUE)}

(* What get(url) may return.                                                *)
Responses(url) == IF url = DDG THEN MainSerps ELSE MainPages

EmptyCache == [k \in {} |-> None]
NoResult == [RRP |-> None, Currency |-> None, SourceURL |-> None]

-----------------------------------------------------------------------------
(* The script.                                                             *)

PureIdle ==
    /\ html = Unset /\ parsed = Unset
    /\ serp = Unset /\ found = Unset
    /\ firstText = EmptyCache /\ lastGet = Unset

MainIdle ==
    /\ ean_col = Unset /\ prod_col = Unset
    /\ out = <<>> /\ i = 0
    /\ query = "" /\ ai = 0 /\ links = <<>> /\ ui = 0 /\ res = None
    /\ log = <<>> /\ slept = 0 /\ attempted = {}

Init ==
    /\ pc = "upload"
    /\ cols \in MainCols
    /\ df \in Tables(cols)
    /\ market = "UK"
    /\ throttle \in Throttles
    /\ cache = EmptyCache /\ requests = 0
    /\ MainIdle
    /\ PureIdle

pureVars == <<html, parsed, serp, found, firstText, lastGet>>
tableVars == <<cols, df, market, throttle>>
lookupVars == <<query, ai, links, ui, res, log, slept>>
cacheVars == <<cache, requests>>

(* Lines 185-204: the file is read and the columns are detected.            *)
Upload ==
    /\ pc = "upload"
    /\ ean_col' = DetectEan(cols)
    /\ prod_col' = DetectProduct(cols)
    /\ pc' = "ready"
    /\ UNCHANGED <<tableVars, out, i, lookupVars, cacheVars, attempted, pureVars>>

(* Lines 206-214: the button; the result columns start as None.             *)
RunLookup ==
    /\ pc = "ready"
    /\ out' = [r \in 1..Len(df) |-> NoResult]
    /\ i' = 1
    /\ pc' = "row"
    /\ UNCHANGED <<tableVars, ean_col, prod_col, lookupVars, cacheVars,
                   attempted, pureVars>>

(* Lines 215-219 and 150-156: the next row; lookup_rrp is entered when     *)
(* either string is non-empty.                                             *)
RowStart ==
    /\ pc = "row"
    /\ i <= Len(df)
    /\ LET ean == CellStr(df[i], ean_col)
           product == CellStr(df[i], prod_col)
       IN  IF product # "" \/ ean # ""
           THEN /\ attempted' = attempted \cup {i}
                /\ query' = IF strip(ean) # "" THEN product \o " " \o ean
                            ELSE product
                /\ ai' = 1 /\ links' = <<>> /\ ui' = 0 /\ res' = None
                /\ log' = <<>> /\ slept' = 0
                /\ pc' = IF market \in DOMAIN ADAPTERS THEN "search"
                         ELSE "return"
                /\ UNCHANGED i
           ELSE /\ i' = i + 1
                /\ UNCHANGED <<attempted, lookupVars, pc>>
    /\ UNCHANGED <<tableVars, ean_col, prod_col, out, cacheVars, pureVars>>

Adapter == ADAPTERS[market][ai]

(* Line 158: adapter.search(query).                                         *)
Search ==
    /\ pc = "search"
    /\ \E response \in Responses(DDG) :
          LET got == SearchGet(query, Domain(Adapter), response)
              found_links == ResultLinks(got.text)
          IN  /\ cache' = got.cache
              /\ requests' = got.requests
              /\ links' = found_links
              /\ ui' = 1
              /\ log' = Append(log, [op |-> "search", a |-> Adapter,
                                     links |-> found_links, at |-> slept])
              /\ pc' = IF found_links = <<>> THEN "sleep" ELSE "parse"
    /\ UNCHANGED <<tableVars, ean_col, prod_col, out, i, query, ai, res,
                   slept, attempted, pureVars>>

(* ParseUrl without the early return: the result is kept and the loop goes  *)
(* on to the next candidate.                                               *)
ParseUrlKeepsGoing ==
    /\ pc = "parse"
    /\ \E response \in Responses(links[ui]) :
          LET got == cached_get(links[ui], "", response)
              r == Parse(Adapter, links[ui], got.text)
              parsed_res == IF r = Raised THEN None ELSE r
          IN  /\ cache' = got.cache
              /\ requests' = got.requests
              /\ log' = Append(log, [op |-> "parse", a |-> Adapter, u |-> ui,
                                     url |-> links[ui], raised |-> r = Raised,
                                     ok |-> parsed_res # None])
              /\ res' = IF parsed_res # None
                        THEN [price |-> parsed_res.price,
                              curr |-> IF market = "UK" THEN "GBP" ELSE "",
                              src |-> parsed_res.url]
                        ELSE res
              /\ ui' = IF ui < Len(links) THEN ui + 1 ELSE ui
              /\ pc' = IF ui < Len(links) THEN "parse" ELSE "sleep"
    /\ UNCHANGED <<tableVars, ean_col, prod_col, out, i, query, ai, links,
                   slept, attempted, pureVars>>

(* ParseUrl without the try: an exception of parse leaves lookup_rrp.        *)
ParseUrlUncaught ==
    /\ pc = "parse"
    /\ \E response \in Responses(links[ui]) :
          LET got == cached_get(links[ui], "", response)
              r == Parse(Adapter, links[ui], got.text)
          IN  /\ cache' = got.cache
              /\ requests' = got.requests
              /\ log' = Append(log, [op |-> "parse", a |-> Adapter, u |-> ui,
                                     url |-> links[ui], raised |-> r = Raised,
                                     ok |-> r # None /\ r # Raised])
              /\ IF r = Raised
                 THEN /\ pc' = "crashed"
                      /\ UNCHANGED <<res, ui>>
                 ELSE IF r # None
                 THEN /\ res' = [price |-> r.price,
                                 curr |-> IF market = "UK" THEN "GBP" ELSE "",
                                 src |-> r.url]
                      /\ pc' = "return"
                      /\ UNCHANGED ui
                 ELSE /\ res' = res
                      /\ ui' = IF ui < Len(links) THEN ui + 1 ELSE ui
                      /\ pc' = IF ui < Len(links) THEN "parse" ELSE "sleep"
    /\ UNCHANGED <<tableVars, ean_col, prod_col, out, i, query, ai, links,
                   slept, attempted, pureVars>>

(* Lines 159-166: one candidate URL; an exception counts as no price.       *)
ParseUrl ==
    /\ pc = "parse"
    /\ \E response \in Responses(links[ui]) :
          LET got == cached_get(links[ui], "", response)
              r == Parse(Adapter, links[ui], got.text)
              parsed_res == IF r = Raised THEN None ELSE r
          IN  /\ cache' = got.cache
              /\ requests' = got.requests
              /\ log' = Append(log, [op |-> "parse", a |-> Adapter, u |-> ui,
                                     url |-> links[ui], raised |-> r = Raised,
                                     ok |-> parsed_res # None])
              /\ IF parsed_res # None
                 THEN /\ res' = [price |-> parsed_res.price,
                                 curr |-> IF market = "UK" THEN "GBP" ELSE "",
                                 src |-> parsed_res.url]
                      /\ pc' = "return"
                      /\ UNCHANGED ui
                 ELSE /\ res' = res
                      /\ ui' = IF ui < Len(links) THEN ui + 1 ELSE ui
                      /\ pc' = IF ui < Len(links) THEN "parse" ELSE "sleep"
    /\ UNCHANGED <<tableVars, ean_col, prod_col, out, i, query, ai, links,
                   slept, attempted, pureVars>>

(* Sleep with the delay skipped when the search gave no link.               *)
SleepOnlyAfterParse ==
    /\ pc = "sleep"
    /\ slept' = IF throttle # 0 /\ links # <<>> THEN slept + throttle ELSE slept
    /\ IF ai < Len(ADAPTERS[market])
       THEN /\ ai' = ai + 1 /\ pc' = "search"
       ELSE /\ ai' = ai /\ pc' = "return"
    /\ UNCHANGED <<tableVars, ean_col, prod_col, out, i, query, links, ui, res,
                   log, cacheVars, attempted, pureVars>>

(* Lines 167-169: the delay after an adapter that gave no price, then the   *)
(* next adapter, or None after the last.                                   *)
Sleep ==
    /\ pc = "sleep"
    /\ slept' = IF throttle # 0 THEN slept + throttle ELSE slept
    /\ IF ai < Len(ADAPTERS[market])
       THEN /\ ai' = ai + 1 /\ pc' = "search"
       ELSE /\ ai' = ai /\ pc' = "return"
    /\ UNCHANGED <<tableVars, ean_col, prod_col, out, i, query, links, ui, res,
                   log, cacheVars, attempted, pureVars>>

(* WriteBack with the source URL left out.                                  *)
WriteBackNoSource ==
    /\ pc = "return"
    /\ out' = IF res # None
              THEN [out EXCEPT ![i] = [RRP |-> res.price,
                                       Currency |-> Str(res.curr),
                                       SourceURL |-> None]]
              ELSE out
    /\ i' = i + 1
    /\ pc' = "row"
    /\ UNCHANGED <<tableVars, ean_col, prod_col, lookupVars, cacheVars,
                   attempted, pureVars>>

(* Lines 220-225: the result is written onto the row.                       *)
WriteBack ==
    /\ pc = "return"
    /\ out' = IF res # None
              THEN [out EXCEPT ![i] = [RRP |-> res.price,
                                       Currency |-> Str(res.curr),
                                       SourceURL |-> Str(res.src)]]
              ELSE out
    /\ i' = i + 1
    /\ pc' = "row"
    /\ UNCHANGED <<tableVars, ean_col, prod_col, lookupVars, cacheVars,
                   attempted, pureVars>>

(* Lines 227-240: the results are offered for download.                     *)
Finish ==
    /\ pc = "row"
    /\ i > Len(df)
    /\ pc' = "done"
    /\ UNCHANGED <<tableVars, ean_col, prod_col, out, i, lookupVars, cacheVars,
                   attempted, pureVars>>

Next ==
    \/ Upload
    \/ RunLookup
    \/ RowStart
    \/ Search
    \/ ParseUrl
    \/ Sleep
    \/ WriteBack
    \/ Finish

Spec == Init /\ [][Next]_vars

-----------------------------------------------------------------------------
(* Column detection alone: any header of up to MaxCols distinct columns.    *)

IntHeader == [t |-> "int", v |-> 0]

ColHeaders ==
    {Header("EAN"), Header("GTIN"), Header("gtin"), Header("G.T.I.N."),
     Header("Bar-Code"), Header("EAN Code"), Header("Title"), Header("TITLE"),
     Header("Product"), Header("Product Name"), Header("_name_"),
     Header("Description"), Header("Price"), Header("SKU"), IntHeader}

ColTables ==
    {c \in UNION {[1..n -> ColHeaders] : n \in 0..MaxCols} :
        \A j, k \in 1..Len(c) : j # k => c[j] # c[k]}

InitCols ==
    /\ pc = "upload"
    /\ cols \in ColTables
    /\ df = <<>>
    /\ market = "UK"
    /\ throttle = 0
    /\ cache = EmptyCache /\ requests = 0
    /\ MainIdle
    /\ PureIdle

SpecCols == InitCols /\ [][Upload]_vars

-----------------------------------------------------------------------------
(* The response cache alone: any sequence of cached_get calls.              *)

CacheUrls == {DDG, U1}
CacheParams == {"", json_dumps("A site:boots.com", "uk")}
CacheResponses ==
    {None, EmptyBody, Serp(<<Str(U1)>>),
     Page(Text(Chars("£12.99")), NoMeta, FALSE, FALSE)}

InitCache ==
    /\ pc = "cache"
    /\ cols = <<>> /\ df = <<>>
    /\ market = "UK"
    /\ throttle = 0
    /\ cache = EmptyCache /\ requests = 0
    /\ MainIdle
    /\ PureIdle

CachedGetCall ==
    /\ pc = "cache"
    /\ \E url \in CacheUrls, params_key \in CacheParams,
          response \in CacheResponses :
          LET got == cached_get(url, params_key, response)
              key == CacheKey(url, params_key)
          IN  /\ cache' = got.cache
              /\ requests' = got.requests
              /\ lastGet' = [key |-> key, text |-> got.text,
                             hit |-> key \in DOMAIN firstText]
              /\ firstText' =
                    IF key \in DOMAIN firstText THEN firstText
                    ELSE [k \in DOMAIN firstText \cup {key} |->
                             IF k = key THEN got.text ELSE firstText[k]]
    /\ UNCHANGED <<tableVars, ean_col, prod_col, out, i, pc, lookupVars,
                   attempted, html, parsed, serp, found>>

SpecCache == InitCache /\ [][CachedGetCall]_vars

-----------------------------------------------------------------------------
(* The search step alone: any result page of up to MaxAnchors anchors.      *)

Hrefs == {None, Str(""), Str(U1), Str(U2)}

SerpBodies ==
    {None, EmptyBody}
        \cup {Serp(a) : a \in UNION {[1..n -> Hrefs] : n \in 0..MaxAnchors}}

InitSearch ==
    /\ pc = "ddg"
    /\ serp \in SerpBodies
    /\ found = Unset
    /\ cols = <<>> /\ df = <<>>
    /\ market = "UK"
    /\ throttle = 0
    /\ cache = EmptyCache /\ requests = 0
    /\ MainIdle
    /\ html = Unset /\ parsed = Unset
    /\ firstText = EmptyCache /\ lastGet = Unset

(* Lines 46-59: ddg_html_search(query, site) when the engine answers serp.  *)
DdgHtmlSearch ==
    /\ pc = "ddg"
    /\ found = Unset
    /\ LET got == SearchGet("A", Domain(BootsUK), serp)
       IN  /\ cache' = got.cache
           /\ requests' = got.requests
           /\ found' = [t |-> "list", v |-> ResultLinks(got.text)]
    /\ UNCHANGED <<tableVars, ean_col, prod_col, out, i, pc, lookupVars,
                   attempted, html, parsed, serp, firstText, lastGet>>

SpecSearch == InitSearch /\ [][DdgHtmlSearch]_vars

-----------------------------------------------------------------------------
(* The adapters' parse alone: any page of the texts below.                  *)

Prefixes == {<<>>, <<"N", "o", "w", " ">>}
Pounds == {<<"£">>, <<"£", " ">>}
Wholes == {<<"1">>, <<"1", "2">>}
Groups == {<<>>, <<",", "2", "3", "4">>}
Fractions == {<<>>, <<".">>, <<".", "9", "9">>, <<".", "5", "0">>}

ParseTexts ==
    {p \o q \o w \o g \o f :
        p \in Prefixes, q \in Pounds, w \in Wholes, g \in Groups,
        f \in Fractions}
        \cup {<<>>, <<"£">>, Chars("Sold out"), Chars("25.00")}

ParseMetas ==
    {NoMeta, None, Text(<<>>), Text(Chars("25.00")), Text(Chars("Sold out")),
     Text(<<"1", ",", "2", "3", "4", ".", "5", "0">>)}

ParsePages ==
    {None, EmptyBody, Page(None, NoMeta, FALSE, TRUE)}
        \cup {Page(el, meta, first, FALSE) :
                el \in {None} \cup {Text(x) : x \in ParseTexts},
                meta \in ParseMetas, first \in BOOLEAN}

AdapterNames == Range(ADAPTERS.UK)

InitParse ==
    /\ pc = "page"
    /\ html \in ParsePages
    /\ parsed = [a \in AdapterNames |-> Unset]
    /\ cols = <<>> /\ df = <<>>
    /\ market = "UK"
    /\ throttle = 0
    /\ cache = EmptyCache /\ requests = 0
    /\ MainIdle
    /\ serp = Unset /\ found = Unset
    /\ firstText = EmptyCache /\ lastGet = Unset

(* adapter.parse(U1, ean, product) when the retailer answers html.           *)
ParsePage ==
    /\ pc = "page"
    /\ \E a \in AdapterNames :
          /\ parsed[a] = Unset
          /\ LET got == cached_get(U1, "", html)
             IN  /\ cache' = got.cache
                 /\ requests' = got.requests
                 /\ parsed' = [parsed EXCEPT ![a] = Parse(a, U1, got.text)]
    /\ UNCHANGED <<tableVars, ean_col, prod_col, out, i, pc, lookupVars,
                   attempted, html, serp, found, firstText, lastGet>>

SpecParse == InitParse /\ [][ParsePage]_vars

-----------------------------------------------------------------------------
(* Properties of the lookup (specification Spec).                          *)

Searches(k) == {j \in 1..k : log[j].op = "search"}

Max(S) == CHOOSE x \in S : \A y \in S : x >= y

(* The links returned by the search that log entry k (a parse) belongs to. *)
LinksAt(k) == log[Max(Searches(k))].links

DeclaredOrder == <<"Sephora UK", "Space NK", "Boots UK">>

RECURSIVE Pow10(_)
Pow10(n) == IF n = 0 THEN 1 ELSE 10 * Pow10(n - 1)

Less(a, b) == a.m * Pow10(b.e) < b.m * Pow10(a.e)

LastIsSuccess ==
    /\ log # <<>>
    /\ log[Len(log)].op = "parse"
    /\ log[Len(log)].ok

(* C1: the searches of a lookup are made by Sephora UK, Space NK, Boots UK *)
(* in that order; the parses after a search take that adapter's links in   *)
(* search-result order; a parse that yields a price is the last call of    *)
(* the lookup, and the lookup returns that parse's result; a lookup that   *)
(* returns nothing has tried every adapter and no parse yielded a price.   *)
FirstSuccessWins ==
    /\ \A k \in 1..Len(log) :
          /\ log[k].op = "search" =>
                log[k].a = DeclaredOrder[Cardinality(Searches(k))]
          /\ log[k].op = "parse" =>
                /\ k > 1
                /\ log[k].a = log[k - 1].a
                /\ log[k].u = IF log[k - 1].op = "search" THEN 1
                              ELSE log[k - 1].u + 1
                /\ log[k].u <= Len(LinksAt(k))
                /\ log[k].url = LinksAt(k)[log[k].u]
                /\ log[k].ok => k = Len(log)
    /\ LastIsSuccess =>
          /\ pc \in {"return", "row", "done"}
          /\ res # None
          /\ res.src = log[Len(log)].url
          /\ res.price =
                Parse(log[Len(log)].a, res.src, cache[CacheKey(res.src, "")]).price
    /\ (pc = "return" /\ ~LastIsSuccess) =>
          /\ res = None
          /\ Cardinality(Searches(Len(log))) = Len(DeclaredOrder)

(* C1 witness: a lookup has returned a price although a later link of the  *)
(* winning adapter is a cached page from which that adapter parses a lower *)
(* price.                                                                  *)
FirstSuccessWinsWitness ==
    /\ pc = "return"
    /\ res # None
    /\ \E j \in (ui + 1)..Len(links) :
          /\ CacheKey(links[j], "") \in DOMAIN cache
          /\ LET r == Parse(Adapter, links[j], cache[CacheKey(links[j], "")])
             IN  /\ r # None /\ r # Raised
                 /\ Less(r.price, res.price)

IsEmptySearch(k) == log[k].op = "search" /\ log[k].links = <<>>

(* C2: after a search that returned no URL, no parse is made for that      *)
(* adapter, and the time slept in the lookup has grown by the configured   *)
(* delay when the next search is called (or the lookup returns).           *)
EmptySearchSkipsParse ==
    \A k \in 1..Len(log) :
        IsEmptySearch(k) =>
            /\ \A j \in 1..Len(log) :
                  log[j].op = "parse" => log[j].a # log[k].a
            /\ k < Len(log) =>
                  /\ log[k + 1].op = "search"
                  /\ log[k + 1].at = log[k].at + throttle
            /\ k = Len(log) =>
                  slept = IF pc = "sleep" THEN log[k].at
                          ELSE log[k].at + throttle

(* C2 witness: with a non-zero delay, a search that returned no URL has    *)
(* been followed by the next adapter's search.                             *)
EmptySearchSkipsParseWitness ==
    /\ throttle > 0
    /\ \E k \in 1..Len(log) : IsEmptySearch(k) /\ k < Len(log)

BlankCell(row, c) == IsColumn(c) /\ row[ColumnIndex(c)] = NaN

(* C3: a row whose identifier cell and product-name cell are both empty is *)
(* never looked up and its price, currency and source URL stay unset.      *)
BlankRowsNotLookedUp ==
    pc \notin {"upload", "ready"} =>
        \A r \in 1..Len(df) :
            (BlankCell(df[r], ean_col) /\ BlankCell(df[r], prod_col)) =>
                r \notin attempted /\ out[r] = NoResult

IsRaisedParse(k) == log[k].op = "parse" /\ log[k].raised

(* C6: a parse that raised counts as no price; lookup_rrp does not raise,  *)
(* and the next call is the parse of the adapter's next link or, when none *)
(* is left, the next adapter's search (after the last adapter, the lookup  *)
(* returns nothing).                                                       *)
ParseErrorIsNoPrice ==
    /\ pc # "crashed"
    /\ \A k \in 1..Len(log) :
          IsRaisedParse(k) =>
              /\ ~log[k].ok
              /\ (k < Len(log) /\ log[k].u < Len(LinksAt(k))) =>
                    /\ log[k + 1].op = "parse"
                    /\ log[k + 1].a = log[k].a
                    /\ log[k + 1].url = LinksAt(k)[log[k].u + 1]
              /\ (k < Len(log) /\ log[k].u = Len(LinksAt(k))) =>
                    /\ log[k + 1].op = "search"
                    /\ log[k + 1].a # log[k].a
              /\ (k = Len(log) /\ log[k].u < Len(LinksAt(k))) =>
                    pc = "parse" /\ ui = log[k].u + 1
              /\ (k = Len(log) /\ log[k].u = Len(LinksAt(k))) =>
                    \/ pc = "sleep"
                    \/ pc = "search" /\ Adapter # log[k].a
                    \/ /\ pc \in {"return", "row", "done"}
                       /\ res = None
                       /\ log[k].a = DeclaredOrder[Len(DeclaredOrder)]

(* C6 witness: a parse raised on a link that was not the adapter's last,   *)
(* and the next link has been parsed.                                      *)
ParseErrorIsNoPriceWitness ==
    \E k \in 1..Len(log) :
        /\ IsRaisedParse(k)
        /\ k < Len(log)
        /\ log[k + 1].op = "parse"

IsSet(r) ==
    /\ out[r].RRP # None
    /\ out[r].Currency # None
    /\ out[r].SourceURL # None

(* C10: every row has all of price, currency and source URL or none; a row *)
(* is written only while it is the row being processed and only when it    *)
(* holds nothing; what is written is the price, "GBP" and one of the links *)
(* the winning adapter's search returned.                                  *)
ResultWrittenOnce ==
    /\ [](\A r \in 1..Len(out) : IsSet(r) \/ out[r] = NoResult)
    /\ [][\A r \in 1..Len(out) :
            (Len(out') = Len(out) /\ out'[r] # out[r]) =>
                /\ r = i
                /\ out[r] = NoResult
                /\ out'[r].RRP = res.price
                /\ out'[r].Currency = Str("GBP")
                /\ out'[r].SourceURL # None
                /\ out'[r].SourceURL.v \in Range(links)
                /\ \E k \in 1..Len(log) :
                      /\ log[k].op = "search"
                      /\ log[k].a = Adapter
                      /\ log[k].links = links]_vars

(* C10 witness: a row holds a result and the loop has moved past it.       *)
ResultWrittenOnceWitness ==
    \E r \in 1..Len(out) : IsSet(r) /\ r < i

-----------------------------------------------------------------------------
(* Properties of the response cache (specification SpecCache).              *)

(* C4: the number of requests made equals the number of distinct keys      *)
(* requested, and a call returns the text the first call for its key       *)
(* returned.                                                               *)
CacheHitSameText ==
    /\ requests = Cardinality(DOMAIN firstText)
    /\ lastGet # Unset => lastGet.text = firstText[lastGet.key]

(* C4 witness: a key was requested again after another key was fetched.    *)
CacheHitSameTextWitness ==
    /\ lastGet # Unset
    /\ lastGet.hit
    /\ requests >= 2

-----------------------------------------------------------------------------
(* Properties of the search step (specification SpecSearch).                *)

RECURSIVE Kept(_, _)
Kept(anchors, left_out) ==
    IF anchors = <<>> THEN <<>>
    ELSE IF anchors[1] \in left_out THEN Kept(Tail(anchors), left_out)
    ELSE <<anchors[1].v>> \o Kept(Tail(anchors), left_out)

FirstLinks(all) == SubSeq(all, 1, IF Len(all) < 5 THEN Len(all) ELSE 5)

Anchors(body) == IF NoHtml(body) THEN <<>> ELSE body.anchors

(* C7 as stated: at most 5 URLs, the first result links in page order with *)
(* the anchors that have no href left out; empty when the fetch fails or   *)
(* the page has no result link.                                            *)
SearchKeepsLinksWithHref ==
    found # Unset =>
        /\ Len(found.v) <= 5
        /\ found.v = FirstLinks(Kept(Anchors(serp), {None}))

(* C7 as amended: the anchors left out are those with no href and those    *)
(* with an empty href.                                                     *)
SearchKeepsLinksWithNonEmptyHref ==
    found # Unset =>
        /\ Len(found.v) <= 5
        /\ found.v = FirstLinks(Kept(Anchors(serp), {None, Str("")}))
        /\ (NoHtml(serp) \/ Range(Anchors(serp)) \subseteq {None, Str("")}) =>
              found.v = <<>>

(* C7 witness: a page of more than 5 anchors, the first without href, the  *)
(* second with an empty one, gave 5 links.                                 *)
SearchKeepsLinksWitness ==
    /\ found # Unset
    /\ Len(found.v) = 5
    /\ Len(Anchors(serp)) > 5
    /\ serp.anchors[1] = None
    /\ serp.anchors[2] = Str("")

-----------------------------------------------------------------------------
(* Properties of column detection (specification SpecCols).                 *)

(* The headers of ColHeaders that read ean/barcode/gtin, and those that    *)
(* read product/name/title/description, once case and punctuation are      *)
(* ignored.                                                                *)
IdentifierHeaders ==
    {Header("EAN"), Header("GTIN"), Header("gtin"), Header("G.T.I.N."),
     Header("Bar-Code")}
ProductHeaders ==
    {Header("Title"), Header("TITLE"), Header("Product"), Header("_name_"),
     Header("Description")}

(* C8: when a column's header reads as an identifier name, the identifier  *)
(* column is such a column, and likewise for the product name; GTIN and    *)
(* Title are selected whatever their positions; when no header reads as    *)
(* either, the first column is the identifier and the second the name.     *)
ColumnsDetected ==
    pc = "ready" =>
        /\ Range(cols) \cap IdentifierHeaders # {} =>
              ean_col \in Range(cols) \cap IdentifierHeaders
        /\ Range(cols) \cap ProductHeaders # {} =>
              prod_col \in Range(cols) \cap ProductHeaders
        /\ Range(cols) = {Header("GTIN"), Header("Title")} =>
              ean_col = Header("GTIN") /\ prod_col = Header("Title")
        /\ Range(cols) \cap (IdentifierHeaders \cup ProductHeaders) = {} =>
              /\ Len(cols) >= 1 => ean_col = cols[1]
              /\ Len(cols) >= 2 => prod_col = cols[2]

(* C8 witness: Title then G.T.I.N. are detected by name, against position. *)
ColumnsDetectedWitness ==
    /\ pc = "ready"
    /\ cols = <<Header("Title"), Header("G.T.I.N.")>>
    /\ ean_col = cols[2]
    /\ prod_col = cols[1]

-----------------------------------------------------------------------------
(* Properties of the adapters' parse (specification SpecParse).             *)

IsPage(body) == ~NoHtml(body) /\ ~body.broken

(* price_el of each adapter.                                               *)
PriceEl(a, page) == IF a = SephoraUK THEN page.el ELSE ItempropPriceEl(page)

(* The decimal value of the first pound-prefixed number of text, thousands *)
(* separators removed: its digits and commas, then "." and digits if any.  *)
PoundNumber(text) ==
    LET j == PriceGroupStart(text)
        n == SpanLen(text, j, Digits \cup {","})
        d == j + n
        f == IF d <= Len(text) /\ text[d] = "."
             THEN SpanLen(text, d + 1, Digits) ELSE 0
    IN  float(StripCommas(SubSeq(text, j, d - 1))
              \o (IF f > 0 THEN SubSeq(text, d, d + f) ELSE <<>>))

(* C5: when the text of an adapter's price element holds a pound-prefixed  *)
(* number, parse returns that number's decimal value, thousands separators *)
(* removed.                                                                *)
PoundPriceParsed ==
    \A a \in AdapterNames :
        (/\ parsed # Unset
         /\ parsed[a] # Unset
         /\ IsPage(html)
         /\ PriceEl(a, html) # None
         /\ PriceGroupStart(PriceEl(a, html).s) # 0) =>
            parsed[a] = Tuple(PoundNumber(PriceEl(a, html).s), U1)

(* The outcome the shared contract gives: the price of the element's text, *)
(* else the meta tag's numeric content, else nothing.                      *)
ContractOutcome(el, page) ==
    IF el # None /\ TextPrice(IF el = None THEN <<>> ELSE el.s, U1) # None
    THEN TextPrice(el.s, U1)
    ELSE MetaPrice(page, U1)

(* C9: every adapter returns the shared contract's outcome: the element's  *)
(* price, else the meta tag's number, and nothing only when neither gives  *)
(* a number.                                                               *)
SharedParseContract ==
    \A a \in AdapterNames :
        (parsed # Unset /\ parsed[a] # Unset /\ IsPage(html)) =>
            parsed[a] = ContractOutcome(PriceEl(a, html), html)

====
